---- MODULE Spec2Model ----
(***************************************************************************)
(* Blood-donation calendar (src/app.py): the eligibility engine            *)
(* check_availability and the record forms that consume its verdict map.   *)
(*                                                                         *)
(* Dates are triples <<year, month, day>>.  A record's 'start' field is    *)
(* the "%Y-%m-%d" text of its date; the text is modelled by the number     *)
(* yyyymmdd, whose numeric order is the lexicographic order of the text    *)
(* for four-digit years.  The three type labels, the two sexes and the     *)
(* three reason labels are Japanese display strings in the source; they    *)
(* are written here with the ASCII names the specification uses.           *)
(***************************************************************************)
EXTENDS Integers, Sequences, FiniteSets, TLC

VARIABLES history, birthday, gender, state, availability, calendar_view_date

vars == <<history, birthday, gender, state, availability, calendar_view_date>>

-----------------------------------------------------------------------------
(* Labels                                                                  *)

WholeBlood400 == "WholeBlood400"
WholeBlood200 == "WholeBlood200"
Component == "Component"
Male == "Male"
Female == "Female"
AgeRestriction == "AgeRestriction"
MinimumInterval == "MinimumInterval"
AnnualVolumeCap == "AnnualVolumeCap"

ALL_TYPES == <<WholeBlood400, WholeBlood200, Component>>

DonationTypes == {ALL_TYPES[i] : i \in 1..Len(ALL_TYPES)}

Genders == <<Male, Female>>

MAX_VOLUME == [g \in {Male, Female} |-> IF g = Male THEN 1200 ELSE 800]

\* "全血" in title
HasZenketsu(title) == title \in {WholeBlood400, WholeBlood200}

\* "成分" in title
HasSeibun(title) == title = Component

-----------------------------------------------------------------------------
(* Calendar arithmetic: datetime.date and dateutil.relativedelta           *)

Min(a, b) == IF a < b THEN a ELSE b

IsLeap(y) == (y % 4 = 0 /\ y % 100 # 0) \/ y % 400 = 0

\* calendar.monthrange(y, m)[1]
DaysInMonth(y, m) ==
  IF m = 2 THEN (IF IsLeap(y) THEN 29 ELSE 28)
  ELSE IF m \in {4, 6, 9, 11} THEN 30 ELSE 31

RECURSIVE DaysBeforeMonth(_, _)
DaysBeforeMonth(y, m) ==
  IF m = 1 THEN 0 ELSE DaysBeforeMonth(y, m - 1) + DaysInMonth(y, m - 1)

DaysBeforeYear(y) ==
  (y - 1) * 365 + ((y - 1) \div 4) - ((y - 1) \div 100) + ((y - 1) \div 400)

\* date.toordinal()
toordinal(dt) == DaysBeforeYear(dt[1]) + DaysBeforeMonth(dt[1], dt[2]) + dt[3]

RECURSIVE MonthOfDay(_, _, _)
\* the month holding the n-th day (from 0) of year y, searched from month m
MonthOfDay(y, m, n) ==
  IF n < DaysInMonth(y, m) THEN <<y, m, n + 1>>
  ELSE MonthOfDay(y, m + 1, n - DaysInMonth(y, m))

\* date.fromordinal(n)
fromordinal(n) ==
  LET n0 == n - 1
      n400 == n0 \div 146097
      r400 == n0 % 146097
      n100 == r400 \div 36524
      r100 == r400 % 36524
      n4 == r100 \div 1461
      r4 == r100 % 1461
      n1 == r4 \div 365
      r1 == r4 % 365
      year == n400 * 400 + 1 + n100 * 100 + n4 * 4 + n1
  IN  IF n1 = 4 \/ n100 = 4 THEN <<year - 1, 12, 31>>
      ELSE MonthOfDay(year, 1, r1)

\* the order of two dates, and of two 'start' texts
DateKey(dt) == dt[1] * 10000 + dt[2] * 100 + dt[3]

DateLT(a, b) == DateKey(a) < DateKey(b)

DateLE(a, b) == DateKey(a) <= DateKey(b)

\* date.strftime("%Y-%m-%d")
strftime(dt) == dt[1] * 10000 + dt[2] * 100 + dt[3]

\* datetime.strptime(s, "%Y-%m-%d").date()
strptime(s) == <<s \div 10000, (s \div 100) % 100, s % 100>>

\* dt + relativedelta(weeks=w)
AddWeeks(dt, w) == fromordinal(toordinal(dt) + 7 * w)

\* dt + timedelta(days=n)
AddDays(dt, n) == fromordinal(toordinal(dt) + n)

\* dt + relativedelta(years=k), k of either sign: the day is clipped to the
\* length of the month in the new year
AddYears(dt, k) == <<dt[1] + k, dt[2], Min(DaysInMonth(dt[1] + k, dt[2]), dt[3])>>

\* dt + relativedelta(years=.., months=..) after _set_months(months)
AddMonths(dt, months) ==
  LET s == IF months < 0 THEN -1 ELSE 1
      a == months * s
      yrs == IF a > 11 THEN (a \div 12) * s ELSE 0
      mon == IF a > 11 THEN (a % 12) * s ELSE months
      y0 == dt[1] + yrs
      m0 == dt[2] + mon
      y == IF m0 > 12 THEN y0 + 1 ELSE IF m0 < 1 THEN y0 - 1 ELSE y0
      m == IF m0 > 12 THEN m0 - 12 ELSE IF m0 < 1 THEN m0 + 12 ELSE m0
  IN  <<y, m, Min(DaysInMonth(y, m), dt[3])>>

RECURSIVE AdjustMonths(_, _, _)
\* the loop of relativedelta(dt1, dt2) that steps the month count until
\* dt2 + months no longer overshoots dt1
AdjustMonths(dt1, dt2, months) ==
  LET dtm == AddMonths(dt2, months)
  IN  IF DateLT(dt1, dt2)
      THEN (IF DateLT(dtm, dt1) THEN AdjustMonths(dt1, dt2, months + 1) ELSE months)
      ELSE (IF DateLT(dt1, dtm) THEN AdjustMonths(dt1, dt2, months - 1) ELSE months)

\* relativedelta(dt1, dt2).years
relativedelta_years(dt1, dt2) ==
  LET months == AdjustMonths(dt1, dt2, (dt1[1] - dt2[1]) * 12 + (dt1[2] - dt2[2]))
      s == IF months < 0 THEN -1 ELSE 1
  IN  IF months * s > 11 THEN ((months * s) \div 12) * s ELSE 0

-----------------------------------------------------------------------------
(* Business logic                                                          *)

get_volume(donation_type) ==
  IF donation_type = WholeBlood200 THEN 200
  ELSE IF donation_type = WholeBlood400 THEN 400
  ELSE 0

\* variant: the difference of the calendar years, the birthday not compared
age_on_date_years_only(target_date, bday) == target_date[1] - bday[1]

\* age_on_date = relativedelta(target_date, birthday).years
age_on_date(target_date, bday) == relativedelta_years(target_date, bday)

\* variant: a sort that puts a record before the records of its own date
InsertBeforeTies(s, r) ==
  LET k == Cardinality({i \in 1..Len(s) : s[i].start < r.start})
  IN  SubSeq(s, 1, k) \o <<r>> \o SubSeq(s, k + 1, Len(s))

RECURSIVE SortPrefixTiesReversed(_, _)
SortPrefixTiesReversed(h, n) ==
  IF n = 0 THEN <<>> ELSE InsertBeforeTies(SortPrefixTiesReversed(h, n - 1), h[n])

sorted_history_ties_reversed(h) == SortPrefixTiesReversed(h, Len(h))

\* one step of the stable sort: r goes after every element whose key is
\* not greater than its own
InsertByStart(s, r) ==
  LET k == Cardinality({i \in 1..Len(s) : s[i].start <= r.start})
  IN  SubSeq(s, 1, k) \o <<r>> \o SubSeq(s, k + 1, Len(s))

RECURSIVE SortPrefix(_, _)
SortPrefix(h, n) ==
  IF n = 0 THEN <<>> ELSE InsertByStart(SortPrefix(h, n - 1), h[n])

\* sorted(history, key=lambda x: x['start']): a new list, stable
sorted_history(h) == SortPrefix(h, Len(h))

\* variant: history.sort(key=...) in place of sorted(history, key=...)
history_sorted_in_place(h) == sorted_history(h)

\* what the call leaves in the caller's list: sorted() copies, the argument
\* is not reordered
history_after_check(h) == h

\* [h for h in sorted_history if strptime(h['start']).date() < target_date]
donations_before_target(sorted, target_date) ==
  SelectSeq(sorted, LAMBDA r : DateLT(strptime(r.start), target_date))

\* donations_before_target[-1]; None is the empty sequence
last_donation(before) == IF before = <<>> THEN <<>> ELSE <<before[Len(before)]>>

\* variant: only the upper age limit is tested
is_age_ok_upper_only(don_type, age, g) == age <= 69

is_age_ok(don_type, age, g) ==
  \/ don_type = WholeBlood200 /\ 16 <= age /\ age <= 69
  \/ don_type = WholeBlood400 /\ (\/ g = Male /\ 17 <= age /\ age <= 69
                                  \/ g = Female /\ 18 <= age /\ age <= 69)
  \/ don_type = Component /\ 18 <= age /\ age <= 69

\* variant: the whole-blood wait chosen by the requested type
wait_weeks_by_request(last_title, don_type, g) ==
  IF HasZenketsu(last_title)
  THEN (IF don_type = Component THEN 8
        ELSE IF don_type = WholeBlood400 THEN (IF g = Male THEN 12 ELSE 16)
        ELSE 4)
  ELSE 2

\* the weeks added to last_date for a request of don_type
wait_weeks(last_title, don_type, g) ==
  IF HasZenketsu(last_title)
  THEN (IF don_type = Component THEN 8
        ELSE IF last_title = WholeBlood400 THEN (IF g = Male THEN 12 ELSE 16)
        ELSE IF last_title = WholeBlood200 THEN 4
        ELSE 0)
  ELSE IF HasSeibun(last_title) THEN 2
  ELSE 0

next_available(last, don_type, g) ==
  AddWeeks(strptime(last.start), wait_weeks(last.title, don_type, g))

\* variant: the sum's window closed at window_start
relevant_history_closed(sorted, target_date) ==
  SelectSeq(sorted,
            LAMBDA r : /\ DateLE(AddYears(target_date, -1), strptime(r.start))
                       /\ DateLT(strptime(r.start), target_date)
                       /\ HasZenketsu(r.title))

\* window_start < date < target_date and "全血" in title
relevant_history(sorted, target_date) ==
  LET window_start == AddYears(target_date, -1)
  IN  SelectSeq(sorted,
                LAMBDA r : /\ DateLT(window_start, strptime(r.start))
                           /\ DateLT(strptime(r.start), target_date)
                           /\ HasZenketsu(r.title))

RECURSIVE SumVolume(_)
SumVolume(s) == IF s = <<>> THEN 0 ELSE get_volume(Head(s).title) + SumVolume(Tail(s))

volume_in_year(sorted, target_date) == SumVolume(relevant_history(sorted, target_date))

\* variant: the search window open at window_start, like the sum's
donations_in_window_open(sorted, target_date) ==
  SelectSeq(sorted,
            LAMBDA r : /\ DateLT(AddYears(target_date, -1), strptime(r.start))
                       /\ DateLT(strptime(r.start), target_date)
                       /\ HasZenketsu(r.title))

\* (target_date - 1 year) <= date < target_date and "全血" in title
donations_in_window(sorted, target_date) ==
  LET window_start == AddYears(target_date, -1)
  IN  SelectSeq(sorted,
                LAMBDA r : /\ DateLE(window_start, strptime(r.start))
                           /\ DateLT(strptime(r.start), target_date)
                           /\ HasZenketsu(r.title))

\* min(donations_in_window, key=lambda x: x['start']): the first minimum
first_donation_in_window(w) ==
  w[CHOOSE i \in 1..Len(w) :
      /\ \A j \in 1..Len(w) : w[i].start <= w[j].start
      /\ \A j \in 1..(i - 1) : w[j].start > w[i].start]

block_lift_date(w) == AddYears(strptime(first_donation_in_window(w).start), 1)

\* the interval gate of one don_type: the 'next' text when it blocks, else <<>>
interval_block(last, don_type, target_date, g) ==
  IF last # <<>> /\ DateLT(target_date, next_available(last[1], don_type, g))
  THEN <<strftime(next_available(last[1], don_type, g))>>
  ELSE <<>>

\* the volume gate of one don_type: the 'next' text when it blocks, else <<>>
volume_block(sorted, don_type, target_date, g) ==
  IF /\ HasZenketsu(don_type)
     /\ volume_in_year(sorted, target_date) + get_volume(don_type) > MAX_VOLUME[g]
     /\ donations_in_window(sorted, target_date) # <<>>
  THEN <<strftime(block_lift_date(donations_in_window(sorted, target_date)))>>
  ELSE <<>>

\* the body of the loop over ALL_TYPES for one don_type
verdict(don_type, target_date, sorted, last, g, age) ==
  IF ~is_age_ok(don_type, age, g)
  THEN [available |-> FALSE, reason |-> AgeRestriction]
  ELSE LET by_interval == interval_block(last, don_type, target_date, g)
       IN  IF by_interval # <<>>
           THEN [available |-> FALSE, reason |-> MinimumInterval, next |-> by_interval[1]]
           ELSE LET by_volume == volume_block(sorted, don_type, target_date, g)
                IN  IF by_volume # <<>>
                    THEN [available |-> FALSE, reason |-> AnnualVolumeCap,
                          next |-> by_volume[1]]
                    ELSE [available |-> TRUE]

check_availability(target_date, h, g, bday) ==
  LET age == age_on_date(target_date, bday)
      sorted == sorted_history(h)
      last == last_donation(donations_before_target(sorted, target_date))
  IN  [don_type \in DonationTypes |-> verdict(don_type, target_date, sorted, last, g, age)]

-----------------------------------------------------------------------------
(* Bounds of the model                                                     *)

\* longest history drawn for an adult donor of the default birth date
MaxHist == 3

\* longest history drawn for the donors at the age thresholds
MaxAgeHist == 2

\* most records the forms may hold at once
MaxRecords == 2

\* datetime.date.today() when the script runs
today == <<2026, 11, 6>>

MinBirthday == <<1950, 1, 1>>

DefaultBirthday == <<2000, 1, 1>>

\* first donation date of the drawn histories; one year later is the last
\* day of February of a year that is not a leap year
Anchor == <<2021, 2, 28>>

AnchorPlusYear == AddYears(Anchor, 1)

\* dates of the records drawn in every order of entry: 16 weeks apart
HistDates == {Anchor, AddWeeks(Anchor, 16)}

\* dates of a series of three donations, 16 weeks apart
SeriesDates == <<Anchor, AddWeeks(Anchor, 16), AddWeeks(Anchor, 32)>>

\* dates clicked: each wait of the interval table measured from Anchor, on its
\* last blocked day and on its first free day; the record dates themselves;
\* the days around one year after Anchor; and a day before the donor is born
TargetDates ==
  {AddDays(Anchor, n) : n \in {0, 13, 14, 27, 28, 35, 55, 56, 83, 84, 111, 112, 224}}
    \cup {AddDays(AnchorPlusYear, n) : n \in {-1, 0, 1}}
    \cup {AddYears(Anchor, -19)}

\* birth dates at the age thresholds on AnchorPlusYear and one day later
ThresholdBirthdays ==
  UNION {{AddYears(AnchorPlusYear, -a), AddDays(AddYears(AnchorPlusYear, -a), 1)} :
           a \in {16, 17, 18, 70}}

\* dates clicked in the calendar and birth dates entered while records are
\* added, edited and deleted
FormDates == {Anchor, AddWeeks(Anchor, 3)}

FormBirthdays == {DefaultBirthday, <<2004, 1, 1>>}

Locations == {"", "room"}

Notes == {"", "memo"}

ViewStarts == {<<2021, 2, 1>>}

-----------------------------------------------------------------------------
(* Session state and the calendar component                                *)

NoState == [callback |-> "none", date |-> <<0, 0, 0>>, id |-> 0]

\* no verdict map: check_availability was not called in this run
NoAvailability == [t \in {} |-> FALSE]

color_of(donation_type) == IF HasSeibun(donation_type) THEN "#4CAF50" ELSE "#FF4C4C"

new_record(id, donation_type, target_date, final_location, notes) ==
  [id |-> id, title |-> donation_type, start |-> strftime(target_date),
   location |-> final_location, notes |-> notes, color |-> color_of(donation_type)]

\* str(uuid.uuid4()): an identifier no record of the history carries
FreshId(h) ==
  CHOOSE n \in 1..(Len(h) + 1) :
    /\ \A i \in 1..Len(h) : h[i].id # n
    /\ \A m \in 1..(n - 1) : \E i \in 1..Len(h) : h[i].id = m

\* [r for r in history if r["id"] != id]
without(h, id) == SelectSeq(h, LAMBDA r : r.id # id)

\* next(e for e in history if e["id"] == id)
event_of(h, id) == h[CHOOSE i \in 1..Len(h) : h[i].id = id]

\* the verdict map a run of the script computes for the component's state
render_availability(st, h, g, bday) ==
  IF st.callback = "dateClick" THEN check_availability(st.date, h, g, bday)
  ELSE NoAvailability

\* the component keeps its state while its key, str(history), is the same
state_after(st, h_old, h_new) == IF h_new = h_old THEN st ELSE NoState

\* the list an edit leaves: the record removed, updated and appended
edited_history(h, id, donation_type, final_location, notes) ==
  Append(without(h, id),
         [event_of(h, id) EXCEPT !.title = donation_type, !.location = final_location,
                                 !.notes = notes, !.color = color_of(donation_type)])

\* [t for t, r in availability.items() if r["available"]]
available_types(av) == {t \in DOMAIN av : av[t].available}

Init ==
  /\ history = <<>>
  /\ birthday = DefaultBirthday
  /\ gender = Genders[1]
  /\ state = NoState
  /\ availability = NoAvailability
  /\ calendar_view_date = strftime(today)

\* a click on a day of the calendar; d is actual_date, the clicked instant
\* converted from UTC to Asia/Tokyo
DateClick(d) ==
  /\ state' = [callback |-> "dateClick", date |-> d, id |-> 0]
  /\ calendar_view_date' = strftime(<<d[1], d[2], 1>>)
  /\ availability' = check_availability(d, history, gender, birthday)
  /\ history' = history_after_check(history)
  /\ UNCHANGED <<birthday, gender>>

\* the calendar reports a new visible range
DatesSet(start) ==
  /\ state' = [callback |-> "datesSet", date |-> start, id |-> 0]
  /\ calendar_view_date' = strftime(start)
  /\ availability' = NoAvailability
  /\ UNCHANGED <<history, birthday, gender>>

\* the sidebar's birth date input
ChangeBirthday(b) ==
  /\ b # birthday
  /\ DateLE(MinBirthday, b) /\ DateLE(b, AddYears(today, -16))
  /\ birthday' = b
  /\ availability' = render_availability(state, history, gender, b)
  /\ UNCHANGED <<history, gender, state, calendar_view_date>>

\* the sidebar's sex radio
ChangeGender(g) ==
  /\ g # gender
  /\ gender' = g
  /\ availability' = render_availability(state, history, g, birthday)
  /\ UNCHANGED <<history, birthday, state, calendar_view_date>>

\* show_form: the save button of the new-record form
SubmitAdd(donation_type, final_location, notes) ==
  /\ state.callback = "dateClick"
  /\ Len(history) < MaxRecords
  /\ donation_type \in available_types(availability)
  /\ final_location # ""
  /\ history' = Append(history, new_record(FreshId(history), donation_type, state.date,
                                           final_location, notes))
  /\ state' = state_after(state, history, history')
  /\ availability' = NoAvailability
  /\ UNCHANGED <<birthday, gender, calendar_view_date>>

\* a click on a record shown in the calendar
EventClick(id) ==
  /\ \E i \in 1..Len(history) : history[i].id = id
  /\ state' = [callback |-> "eventClick", date |-> <<0, 0, 0>>, id |-> id]
  /\ availability' = NoAvailability
  /\ UNCHANGED <<history, birthday, gender, calendar_view_date>>

\* show_edit_form: the update button
SubmitEdit(donation_type, final_location, notes) ==
  /\ state.callback = "eventClick"
  /\ \E i \in 1..Len(history) : history[i].id = state.id
  /\ final_location # ""
  /\ history' = edited_history(history, state.id, donation_type, final_location, notes)
  /\ state' = state_after(state, history, history')
  /\ availability' = NoAvailability
  /\ UNCHANGED <<birthday, gender, calendar_view_date>>

\* show_edit_form: the delete button
DeleteRecord ==
  /\ state.callback = "eventClick"
  /\ \E i \in 1..Len(history) : history[i].id = state.id
  /\ history' = without(history, state.id)
  /\ state' = state_after(state, history, history')
  /\ availability' = NoAvailability
  /\ UNCHANGED <<birthday, gender, calendar_view_date>>

ClickForm == \E d \in FormDates : DateClick(d)

Navigate == \E s \in ViewStarts : DatesSet(s)

EnterBirthday == \E b \in FormBirthdays : ChangeBirthday(b)

EnterGender == \E g \in {Male, Female} : ChangeGender(g)

Add == \E t \in DonationTypes, l \in Locations, n \in Notes : SubmitAdd(t, l, n)

ClickEvent == \E id \in 1..MaxRecords : EventClick(id)

Edit == \E t \in DonationTypes, l \in Locations, n \in Notes : SubmitEdit(t, l, n)

Next ==
  \/ ClickForm
  \/ Navigate
  \/ EnterBirthday
  \/ EnterGender
  \/ Add
  \/ ClickEvent
  \/ Edit
  \/ DeleteRecord

Spec == Init /\ [][Next]_vars

-----------------------------------------------------------------------------
(* The engine on drawn inputs                                              *)

\* the histories of at most n records over HistDates, in every order of entry
Histories(n) ==
  {[i \in 1..Len(s) |-> new_record(i, s[i][2], s[i][1], "room", "")] :
     s \in UNION {[1..k -> HistDates \X DonationTypes] : k \in 0..n}}

\* the series of one donation on each of SeriesDates, of any types
SeriesHistories ==
  {[i \in 1..Len(SeriesDates) |-> new_record(i, ty[i], SeriesDates[i], "room", "")] :
     ty \in [1..Len(SeriesDates) -> DonationTypes]}

InitEval ==
  /\ \/ history \in Histories(MaxHist) /\ birthday = DefaultBirthday
     \/ history \in SeriesHistories /\ birthday = DefaultBirthday
     \/ history \in Histories(MaxAgeHist) /\ birthday \in ThresholdBirthdays
  /\ gender \in {Male, Female}
  /\ state = NoState
  /\ availability = NoAvailability
  /\ calendar_view_date = strftime(today)

\* the engine applied once to each drawn input
Evaluate == state = NoState /\ \E d \in TargetDates : DateClick(d)

NextEval == Evaluate

SpecEval == InitEval /\ [][NextEval]_vars

-----------------------------------------------------------------------------
(* Properties.  They are stated over the inputs of the last call (the      *)
(* clicked date, the history, the sex and the birth date) and the verdict  *)
(* map it returned, without the engine's own intermediate lists.           *)

Evaluated == state.callback = "dateClick"

ReasonOf(v) == IF v.available THEN "" ELSE v.reason

DateOf(r) == strptime(r.start)

\* positions of the records dated strictly before t
BeforeIdx(h, t) == {i \in 1..Len(h) : DateLT(DateOf(h[i]), t)}

\* i is the greatest date before t and, among equals, the last appended
IsReference(h, t, i) ==
  /\ i \in BeforeIdx(h, t)
  /\ \A j \in BeforeIdx(h, t) :
       \/ DateLT(DateOf(h[j]), DateOf(h[i]))
       \/ DateOf(h[j]) = DateOf(h[i]) /\ j <= i

ReferenceIdx(h, t) == CHOOSE i \in BeforeIdx(h, t) : IsReference(h, t, i)

\* what the engine takes as reference prior donation for the last call
EngineReference ==
  last_donation(donations_before_target(sorted_history(history), state.date))

\* C1: the reference prior donation is, among the records dated strictly
\* before the target date, one of greatest date and of those the one appended
\* last; with no such record there is none and no type is blocked for
\* MinimumInterval; a record dated on or after the target date is never it.
C1_ReferencePrior ==
  Evaluated =>
    IF BeforeIdx(history, state.date) = {}
    THEN /\ EngineReference = <<>>
         /\ \A t \in DonationTypes : ReasonOf(availability[t]) # MinimumInterval
    ELSE /\ EngineReference = <<history[ReferenceIdx(history, state.date)]>>
         /\ DateLT(DateOf(EngineReference[1]), state.date)

\* two records of different type share the greatest date before the target,
\* and a further record is dated on or after the target
C1_Witness ==
  /\ Evaluated
  /\ \E i, j \in BeforeIdx(history, state.date) :
       /\ i < j
       /\ IsReference(history, state.date, j)
       /\ history[i].start = history[j].start
       /\ history[i].title # history[j].title
  /\ \E k \in 1..Len(history) : ~DateLT(DateOf(history[k]), state.date)

\* the wait, in weeks, after a prior of type p for a request of type t
TableWait(p, t, g) ==
  IF p = Component THEN 2
  ELSE IF t = Component THEN 8
  ELSE IF p = WholeBlood400 THEN (IF g = Male THEN 12 ELSE 16)
  ELSE 4

\* C2: for a type that passes the age gate and a reference prior dated R, the
\* wait is 8 weeks (whole-blood prior, Component requested), 12 / 16 weeks
\* (WholeBlood400 prior, whole blood requested, Male / Female), 4 weeks
\* (WholeBlood200 prior, whole blood requested), 2 weeks (Component prior); the
\* verdict is Blocked{MinimumInterval, next = R + wait} exactly when the target
\* date is before R + wait.
C2_IntervalTable ==
  Evaluated =>
    \A t \in DonationTypes :
      (ReasonOf(availability[t]) # AgeRestriction /\ BeforeIdx(history, state.date) # {}) =>
        LET ref == history[ReferenceIdx(history, state.date)]
            due == AddDays(DateOf(ref), 7 * TableWait(ref.title, t, gender))
            blocked == [available |-> FALSE, reason |-> MinimumInterval,
                        next |-> strftime(due)]
        IN  /\ (availability[t] = blocked) <=> DateLT(state.date, due)
            /\ ~DateLT(state.date, due) => ReasonOf(availability[t]) # MinimumInterval

\* a WholeBlood400 request exactly 5 weeks after a single WholeBlood200 record
\* is not interval-blocked, and on the last day of a wait the type is blocked
C2_Witness ==
  /\ Evaluated
  /\ Len(history) = 1
  /\ history[1].title = WholeBlood200
  /\ state.date = AddDays(DateOf(history[1]), 35)
  /\ availability[WholeBlood400].available
  /\ ~availability[Component].available

Volume(t) == IF t = WholeBlood400 THEN 400 ELSE IF t = WholeBlood200 THEN 200 ELSE 0

MaxTotal(g) == IF g = Male THEN 1200 ELSE 800

RECURSIVE SumAt(_, _)
SumAt(h, idx) ==
  IF idx = {} THEN 0
  ELSE LET i == CHOOSE i \in idx : TRUE
       IN  Volume(h[i].title) + SumAt(h, idx \ {i})

\* whole-blood records strictly inside (t - 1 year, t)
OpenWindowIdx(h, t) ==
  {i \in 1..Len(h) : /\ h[i].title \in {WholeBlood400, WholeBlood200}
                     /\ DateLT(AddYears(t, -1), DateOf(h[i]))
                     /\ DateLT(DateOf(h[i]), t)}

\* whole-blood records inside [t - 1 year, t)
HalfOpenWindowIdx(h, t) ==
  {i \in 1..Len(h) : /\ h[i].title \in {WholeBlood400, WholeBlood200}
                     /\ DateLE(AddYears(t, -1), DateOf(h[i]))
                     /\ DateLT(DateOf(h[i]), t)}

WindowSum(h, t) == SumAt(h, OpenWindowIdx(h, t))

\* C3: a whole-blood type that passes the age and interval gates is
\* Blocked{AnnualVolumeCap} if and only if S + volume(T) > max (1200 Male, 800
\* Female), S the volume of the whole-blood records strictly inside the year
\* before the target date; otherwise it is Available; Component is never
\* blocked with AnnualVolumeCap.
C3_AnnualCap ==
  Evaluated =>
    \A t \in DonationTypes :
      IF t = Component THEN ReasonOf(availability[t]) # AnnualVolumeCap
      ELSE ReasonOf(availability[t]) \notin {AgeRestriction, MinimumInterval} =>
             IF WindowSum(history, state.date) + Volume(t) > MaxTotal(gender)
             THEN ReasonOf(availability[t]) = AnnualVolumeCap
             ELSE availability[t] = [available |-> TRUE]

\* a request that brings the total exactly to the maximum is Available while
\* a whole-blood record is dated exactly one year before the target date, and
\* the other whole-blood type is blocked by the cap on the same call
C3_Witness ==
  /\ Evaluated
  /\ \E t \in {WholeBlood400, WholeBlood200} :
       /\ availability[t] = [available |-> TRUE]
       /\ WindowSum(history, state.date) + Volume(t) = MaxTotal(gender)
  /\ \E i \in HalfOpenWindowIdx(history, state.date) :
       DateOf(history[i]) = AddYears(state.date, -1)
  /\ \E t \in {WholeBlood400, WholeBlood200} :
       ReasonOf(availability[t]) = AnnualVolumeCap

\* C4: a verdict Blocked{AnnualVolumeCap} reports as nextEligible the date of
\* the earliest whole-blood record in [target - 1 year, target) plus one year.
C4_LiftDate ==
  Evaluated =>
    \A t \in DonationTypes :
      ReasonOf(availability[t]) = AnnualVolumeCap =>
        \E i \in HalfOpenWindowIdx(history, state.date) :
          /\ \A j \in HalfOpenWindowIdx(history, state.date) :
               DateLE(DateOf(history[i]), DateOf(history[j]))
          /\ availability[t].next = strftime(AddYears(DateOf(history[i]), 1))

\* a cap block whose earliest record is dated exactly one year before the
\* target date: it is outside the sum and it sets nextEligible
C4_Witness ==
  /\ Evaluated
  /\ \E t \in DonationTypes :
       /\ ReasonOf(availability[t]) = AnnualVolumeCap
       /\ \E i \in HalfOpenWindowIdx(history, state.date) :
            /\ i \notin OpenWindowIdx(history, state.date)
            /\ availability[t].next = strftime(AddYears(DateOf(history[i]), 1))

HasNext(v) == "next" \in DOMAIN v

\* C5: the nextEligible date N of a Blocked verdict is the earliest date on
\* which the type is permitted again with the history unchanged: N is after
\* the target date, the type is Available at N, and on no date from the
\* target date up to the day before N.
C5_NextEligibleIsEarliest ==
  Evaluated =>
    \A t \in DonationTypes :
      HasNext(availability[t]) =>
        LET N == strptime(availability[t].next)
        IN  /\ DateLT(state.date, N)
            /\ check_availability(N, history, gender, birthday)[t].available
            /\ \A o \in toordinal(state.date)..(toordinal(N) - 1) :
                 ~check_availability(fromordinal(o), history, gender, birthday)[t].available

InAgeRange(t, g, age) ==
  IF t = WholeBlood200 THEN age \in 16..69
  ELSE IF t = WholeBlood400 THEN (IF g = Male THEN age \in 17..69 ELSE age \in 18..69)
  ELSE age \in 18..69

\* whole years at t, the birthday reached when (month, day) of t is not
\* before (month, day) of the birth date
ExactAge(t, b) ==
  (t[1] - b[1]) - (IF t[2] < b[2] \/ (t[2] = b[2] /\ t[3] < b[3]) THEN 1 ELSE 0)

\* the same, the birth day first clipped to the length of its month in the
\* year of t: 29 February counts as reached on 28 February of a common year
ClippedAge(t, b) ==
  LET day == Min(b[3], DaysInMonth(t[1], b[2]))
  IN  (t[1] - b[1]) - (IF t[2] < b[2] \/ (t[2] = b[2] /\ t[3] < day) THEN 1 ELSE 0)

\* C7 as stated: the verdict is Blocked{AgeRestriction}, without nextEligible,
\* if and only if the age by exact month/day comparison is outside the
\* type's range.
C7_AgeGateExact ==
  Evaluated =>
    \A t \in DonationTypes :
      (availability[t] = [available |-> FALSE, reason |-> AgeRestriction])
        <=> ~InAgeRange(t, gender, ExactAge(state.date, birthday))

\* C7 as amended: the same with the birthday of a donor born on 29 February
\* reached on 28 February in a year that is not a leap year.
C7_AgeGateClipped ==
  Evaluated =>
    \A t \in DonationTypes :
      /\ (availability[t] = [available |-> FALSE, reason |-> AgeRestriction])
           <=> ~InAgeRange(t, gender, ClippedAge(state.date, birthday))
      /\ ReasonOf(availability[t]) = AgeRestriction => ~HasNext(availability[t])

\* the day before a donor's 18th birthday: Component and (Female)
\* WholeBlood400 are age-blocked over a history whose volume blocks the
\* whole-blood type that is in its age range
C7_Witness ==
  /\ Evaluated
  /\ birthday = AddYears(AddDays(state.date, 1), -18)
  /\ gender = Female
  /\ availability[Component] = [available |-> FALSE, reason |-> AgeRestriction]
  /\ availability[WholeBlood400] = [available |-> FALSE, reason |-> AgeRestriction]
  /\ ReasonOf(availability[WholeBlood200]) = AnnualVolumeCap

C8_StoredTypesPermitted ==
  [][\A j \in 1..Len(history') :
       (~\E i \in 1..Len(history) :
           history[i].id = history'[j].id /\ history[i].title = history'[j].title)
         => check_availability(DateOf(history'[j]), history, gender,
                               birthday)[history'[j].title].available]_vars

\* dates on which the verdicts before and after an edit are compared
CompareDates == FormDates \cup {AddWeeks(d, 3) : d \in FormDates}

\* C10: an update that keeps the record's type keeps its identifier, its date
\* and the number of records, and leaves the verdict map of every target date
\* unchanged.
C10_EditKeepsVerdicts ==
  [][(/\ state.callback = "eventClick"
      /\ history' # history
      /\ Len(history') = Len(history)
      /\ \E i \in 1..Len(history), j \in 1..Len(history') :
           /\ history[i].id = state.id
           /\ history'[j].id = state.id
           /\ history'[j].title = history[i].title)
       => /\ \E i \in 1..Len(history), j \in 1..Len(history') :
               /\ history[i].id = state.id
               /\ history'[j].id = state.id
               /\ history'[j].start = history[i].start
          /\ \A d \in CompareDates :
               check_availability(d, history', gender, birthday)
                 = check_availability(d, history, gender, birthday)]_vars

====
